---- MODULE Spec2Model ----
(***************************************************************************)
(* Model of server.py: the parquet query engine (schema cache, time range, *)
(* bucketed downsampling, columnar materialisation) behind the HTTP        *)
(* handlers do_GET / do_POST, served one request at a time by HTTPServer.  *)
(*                                                                         *)
(* The analytic engine (DuckDB) is modelled by what the generated SQL      *)
(* text asks of it.  Where SQL leaves the order of rows open (ties under   *)
(* ORDER BY, ROW_NUMBER over tied keys) the model takes every order.       *)
(* Numbers in results are exact rationals <<n, d>> in lowest terms.        *)
(* Requests name one value column, different from the time column; rows    *)
(* carry no NULLs.                                                         *)
(***************************************************************************)
EXTENDS Integers, Sequences, FiniteSets, TLC

(***************************************************************************)
(* Bounds of the model.                                                    *)
(***************************************************************************)
\* most rows in the parquet file
MaxRows == 3
\* clients that can hold a connection to the server at the same time
MaxClients == 2
\* largest requested budget
MaxPoints == 3
\* the budgets a request body can carry (negative and zero included)
BudgetValues == (0 - 1)..MaxPoints
\* time ticks and values of the rows
Ticks == 0..2
Values == 0..1
\* window bounds (epoch seconds) a request body can carry
WindowValues == 0..1

(***************************************************************************)
(* Program constants.                                                      *)
(***************************************************************************)
MAX_POINTS_DEFAULT == 2000
\* DuckDB stores a TIMESTAMP as microseconds since the epoch
MicrosPerSec == 1000000
\* the timestamps of the modelled file lie on half-second ticks
TickMicros == MicrosPerSec \div 2

(***************************************************************************)
(* Exact arithmetic on results: a number is <<n, d>> with d > 0, reduced.  *)
(***************************************************************************)
Abs(x) == IF x < 0 THEN -x ELSE x

RECURSIVE Gcd(_, _)
Gcd(a, b) == IF b = 0 THEN a ELSE Gcd(b, a % b)

Rat(n, d) ==
    LET g == Gcd(Abs(n), d) IN
    IF g = 0 THEN <<0, 1>> ELSE <<n \div g, d \div g>>

RatLeq(a, b) == a[1] * b[2] <= b[1] * a[2]

RECURSIVE SeqSum(_)
SeqSum(s) == IF s = <<>> THEN 0 ELSE Head(s) + SeqSum(Tail(s))

RECURSIVE SeqMin(_)
SeqMin(s) ==
    IF Len(s) = 1 THEN s[1]
    ELSE LET m == SeqMin(Tail(s)) IN IF s[1] <= m THEN s[1] ELSE m

RECURSIVE SeqMax(_)
SeqMax(s) ==
    IF Len(s) = 1 THEN s[1]
    ELSE LET m == SeqMax(Tail(s)) IN IF s[1] >= m THEN s[1] ELSE m

Range(s) == {s[i] : i \in DOMAIN s}

\* Optional[x]: None is {}, a present value x is {x}
None == {}
Some(x) == {x}
The(o) == CHOOSE x \in o : TRUE

(***************************************************************************)
(* The files of PARQUET_DIR and their columns.                             *)
(***************************************************************************)
DataFile == "data.parquet"
MissingFile == "missing.parquet"
Files == {DataFile, MissingFile}

TimeCol == "ts"
ValueCol == "v"
BogusCol == "bogus"

\* native type names DESCRIBE can report for the time column of the file
TimeTypes == {"TIMESTAMP", "BIGINT"}

\* the keywords of _is_timestamp_type / _categorize_type that occur as a
\* substring of dtype.lower(), for the type names of the model
KeywordsIn(dtype) ==
    CASE dtype = "TIMESTAMP" -> {"timestamp", "time"}
      [] dtype = "BIGINT"    -> {"int", "bigint"}
      [] dtype = "DOUBLE"    -> {"double"}
      [] OTHER               -> {}

_is_timestamp_type(dtype) ==
    KeywordsIn(dtype) \cap {"timestamp", "datetime", "date", "time"} # {}

_categorize_type(dtype) ==
    IF KeywordsIn(dtype) \cap {"timestamp", "date", "time"} # {} THEN "temporal"
    ELSE IF KeywordsIn(dtype) \cap {"int", "float", "double", "decimal", "numeric",
                                    "bigint", "smallint", "tinyint", "real"} # {}
         THEN "numeric"
    ELSE IF KeywordsIn(dtype) \cap {"varchar", "char", "string", "text"} # {}
         THEN "string"
    ELSE IF "bool" \in KeywordsIn(dtype) THEN "boolean"
    ELSE "other"


(***************************************************************************)
(* State.                                                                  *)
(*   parquet              rows of data.parquet: [ts |-> raw time, v |-> n] *)
(*                        (raw time: microseconds for TIMESTAMP, the       *)
(*                        number itself for BIGINT); never rewritten       *)
(*   timeType             native type of column "ts" of data.parquet       *)
(*   onDisk               the files that exist under PARQUET_DIR           *)
(*   _column_types_cache  ParquetQueryEngine._column_types_cache           *)
(*   request, response    the request being served and its HTTP response   *)
(*   executed             statements DuckDBManager.execute ran for it      *)
(*   _connection          DuckDBManager._connection: None, or Some(k) for  *)
(*                        the k-th connection duckdb.connect has made      *)
(*   handlers             per client: where its connection to the server   *)
(*                        and the handler serving it stand (ServerSpec)    *)
(***************************************************************************)
VARIABLES parquet, timeType, onDisk, _column_types_cache,
          request, response, executed, _connection, handlers

vars == <<parquet, timeType, onDisk, _column_types_cache,
          request, response, executed, _connection, handlers>>

NoRequest == [endpoint |-> "none"]
NoResponse == [status |-> 0]

\* the schema DuckDB reads from the footer of data.parquet
Schema == (TimeCol :> timeType) @@ (ValueCol :> "DOUBLE")

\* result of  DESCRIBE SELECT * FROM '{filepath}' : rows (name, type)
DescribeRows == << <<TimeCol, timeType>>, <<ValueCol, "DOUBLE">> >>

\* a statement handed to DuckDBManager.execute
Stmt(kind, file, cols, buckets) ==
    [stmt |-> kind, file |-> file, columns |-> cols, num_buckets |-> buckets]

\* the engine raises (IOException / BinderException) when the file is gone
\* or the statement names a column the file does not have
EngineRejects(st) ==
    \/ st.file \notin onDisk
    \/ st.file # DataFile
    \/ ~(st.columns \subseteq DOMAIN Schema)

(***************************************************************************)
(* Engine: ordering.  Every order of s that is non-decreasing in Key.      *)
(***************************************************************************)
Perms(n) == {p \in [1..n -> 1..n] : \A i, j \in 1..n : i # j => p[i] # p[j]}

\* the orders of s that are non-decreasing in keys (keys[i] is the key of s[i])
Orderings(s, keys) ==
    LET n == Len(s)
        sorted(p) == \A i \in 1..(n - 1) : RatLeq(keys[p[i]], keys[p[i + 1]])
    IN { [i \in 1..n |-> s[p[i]]] : p \in {q \in Perms(n) : sorted(q)} }

\* ORDER BY "{time_col}" on result rows: the time cell is the first cell
OrderByTime(rows) == Orderings(rows, [i \in DOMAIN rows |-> rows[i][1]])

\* ascending sequence of a finite set of integers
RECURSIVE Ascending(_)
Ascending(S) ==
    IF S = {} THEN <<>>
    ELSE LET m == CHOOSE x \in S : \A y \in S : x <= y
         IN <<m>> \o Ascending(S \ {m})

(***************************************************************************)
(* Engine: SQL scalar functions.                                           *)
(***************************************************************************)
\* EPOCH(timestamp): seconds since the epoch
EPOCH(micros) == Rat(micros, MicrosPerSec)

\* to_timestamp(seconds)
to_timestamp(secs) == secs * MicrosPerSec

\* FLOOR((rn - 1) * num_buckets::DOUBLE / NULLIF(total, 0))
BucketOf_from_rn(rn, num_buckets, total) == (rn * num_buckets) \div total

BucketOf(rn, num_buckets, total) == ((rn - 1) * num_buckets) \div total

AVG(col, rows) == Rat(SeqSum([i \in DOMAIN rows |-> rows[i][col]]), Len(rows))

MIN(col, rows) == SeqMin([i \in DOMAIN rows |-> rows[i][col]])

MAX(col, rows) == SeqMax([i \in DOMAIN rows |-> rows[i][col]])


(***************************************************************************)
(* DuckDBManager.                                                          *)
(***************************************************************************)
\* the connection property: "if self._connection is None:" creates one
\* (the k-th that duckdb.connect makes), else the existing one is returned
connection(conn) == IF conn = None THEN Some(1) ELSE conn

\* the connection the gateway holds after a call that executed log
ConnectionAfter(conn, log) == IF log = <<>> THEN conn ELSE connection(conn)

(***************************************************************************)
(* ParquetQueryEngine.  A call returns [exc, value, cache, log]: the       *)
(* exception it raised ("" when it returned), its return value, the        *)
(* schema cache it leaves and the statements it executed, in order.        *)
(***************************************************************************)
Return(value, cache, log) ==
    [exc |-> "", value |-> value, cache |-> cache, log |-> log]

Raise(exc, cache, log) ==
    [exc |-> exc, value |-> <<>>, cache |-> cache, log |-> log]

\* self.parquet_dir.glob("*.parquet"): the files of PARQUET_DIR, in any order
Globs ==
    {g \in [1..Cardinality(onDisk) -> onDisk] :
        \A i, j \in DOMAIN g : i # j => g[i] # g[j]}

\* list_files: one COUNT(*) per file found; a file whose count raises is
\* logged and left out.  PARQUET_DIR is Path("."), so str(f) is the name.
\* (size_bytes and size_mb come from f.stat() and are not part of the state.)
list_files(glob, cache) ==
    LET counted == [i \in DOMAIN glob |-> Stmt("COUNT", glob[i], {}, None)]
        read == SelectSeq(glob, LAMBDA f : ~EngineRejects(Stmt("COUNT", f, {}, None)))
    IN Return([i \in DOMAIN read |->
                  [name |-> read[i], path |-> read[i], row_count |-> Len(parquet)]],
              cache, counted)

get_columns(file, cache) ==
    IF file \notin onDisk
    THEN Raise("FileNotFoundError", cache, <<>>)
    ELSE LET describe == Stmt("DESCRIBE", file, {}, None)
             result == DescribeRows
             columns == [i \in DOMAIN result |->
                            [name |-> result[i][1], type |-> result[i][2],
                             category |-> _categorize_type(result[i][2])]]
             column_types == [c \in {result[i][1] : i \in DOMAIN result} |->
                                 LET i == CHOOSE j \in DOMAIN result : result[j][1] = c
                                 IN result[i][2]]
             written == [f \in DOMAIN cache \cup {file} |->
                            IF f = file THEN column_types ELSE cache[f]]
         IN IF EngineRejects(describe)
            THEN Raise("EngineError", cache, <<describe>>)
            ELSE Return(columns, written, <<describe>>)

_get_column_type_reload(file, column, cache) ==
    LET loaded == get_columns(file, cache)
        types == IF file \in DOMAIN loaded.cache THEN loaded.cache[file] ELSE <<>>
    IN IF loaded.exc # ""
       THEN loaded
       ELSE Return(IF column \in DOMAIN types THEN types[column] ELSE "UNKNOWN",
                   loaded.cache, loaded.log)

_get_column_type(file, column, cache) ==
    LET loaded == IF file \notin DOMAIN cache
                  THEN get_columns(file, cache)
                  ELSE Return(<<>>, cache, <<>>)
        types == IF file \in DOMAIN loaded.cache THEN loaded.cache[file] ELSE <<>>
    IN IF loaded.exc # ""
       THEN loaded
       ELSE Return(IF column \in DOMAIN types THEN types[column] ELSE "UNKNOWN",
                   loaded.cache, loaded.log)

\* _to_epoch on a MIN/MAX of a numeric column: None stays None, else float(value)
_to_epoch(value) == IF value = None THEN None ELSE Some(Rat(The(value), 1))

\* _build_time_filter: the rows the generated WHERE clause keeps
\* (the predicate itself; an absent bound adds no clause)
_build_time_filter_or(row, time_column, start_time, end_time, is_timestamp) ==
    LET from == IF is_timestamp
                THEN row[time_column] >= to_timestamp(The(start_time))
                ELSE row[time_column] >= The(start_time)
        upto == IF is_timestamp
                THEN row[time_column] <= to_timestamp(The(end_time))
                ELSE row[time_column] <= The(end_time)
    IN IF start_time = None /\ end_time = None THEN TRUE
       ELSE IF end_time = None THEN from
       ELSE IF start_time = None THEN upto
       ELSE from \/ upto

_build_time_filter(row, time_column, start_time, end_time, is_timestamp) ==
    /\ start_time # None =>
          IF is_timestamp
          THEN row[time_column] >= to_timestamp(The(start_time))
          ELSE row[time_column] >= The(start_time)
    /\ end_time # None =>
          IF is_timestamp
          THEN row[time_column] <= to_timestamp(The(end_time))
          ELSE row[time_column] <= The(end_time)

\* the columns the WHERE clause names
WhereColumns(time_column, start_time, end_time) ==
    IF start_time = None /\ end_time = None THEN {} ELSE {time_column}

\* _get_time_select_expr: the time cell of an output row, as epoch
_get_time_select_expr(row, time_column, is_timestamp) ==
    IF is_timestamp THEN EPOCH(row[time_column]) ELSE Rat(row[time_column], 1)

\* the value cells of an output row that projects a source row
\* (a cell of a TIMESTAMP column is the timestamp itself, in microseconds:
\* float(val) fails on it and json.dumps(default=str) writes it as text)
ValueCells(row, value_columns) ==
    [i \in DOMAIN value_columns |-> Rat(row[value_columns[i]], 1)]

\* the value cells of an output row that averages the rows of a bucket
AvgCells(rows, value_columns) ==
    [i \in DOMAIN value_columns |-> AVG(value_columns[i], rows)]

\* WITH numbered AS (... ROW_NUMBER() OVER (ORDER BY time) as rn ...):
\* the matching rows in rank order; rows of equal time in any order
Numbered(matching, time_col) ==
    Orderings(matching, [i \in DOMAIN matching |-> Rat(matching[i][time_col], 1)])

\* bucketed: the bucket indices in use, and the rows of one bucket by rank
Buckets(numbered, num_buckets) ==
    {BucketOf(rn, num_buckets, Len(numbered)) : rn \in DOMAIN numbered}

BucketRows(numbered, num_buckets, b) ==
    LET Pick(s, rn) == IF BucketOf(rn, num_buckets, Len(numbered)) = b
                       THEN Append(s, numbered[rn]) ELSE s
        F[k \in 0..Len(numbered)] == IF k = 0 THEN <<>> ELSE Pick(F[k - 1], k)
    IN F[Len(numbered)]


\* _downsample_lttb: one row per bucket, time = MIN (as epoch), values = AVG,
\* ORDER BY bucket.  The set of results the engine may return.
_downsample_lttb(matching, time_col, value_cols, max_points, is_timestamp) ==
    LET num_buckets == max_points
        time_agg(rows) == IF is_timestamp THEN EPOCH(MIN(time_col, rows))
                          ELSE Rat(MIN(time_col, rows), 1)
        Result(numbered) ==
            LET order == Ascending(Buckets(numbered, num_buckets))
            IN [k \in DOMAIN order |->
                   LET rows == BucketRows(numbered, num_buckets, order[k])
                   IN <<time_agg(rows)>> \o AvgCells(rows, value_cols)]
    IN {Result(numbered) : numbered \in Numbered(matching, time_col)}

\* _downsample_minmax: the row with pos = 1 of every bucket (first by time
\* within the bucket, any of the tied ones), ORDER BY the output time.
\* The final SELECT reads first_points, where the name of the time column is
\* the output time: a value column of that name reads it too.
_downsample_minmax(matching, time_col, value_cols, max_points, is_timestamp) ==
    LET num_buckets == max_points \div 2
        Firsts(rows) == {r \in Range(rows) : r[time_col] = MIN(time_col, rows)}
        time_output(r) == _get_time_select_expr(r, time_col, is_timestamp)
        Out(r) == <<time_output(r)>>
                      \o [i \in DOMAIN value_cols |->
                             IF value_cols[i] = time_col THEN time_output(r)
                             ELSE ValueCells(r, value_cols)[i]]
        Results(numbered) ==
            LET order == Ascending(Buckets(numbered, num_buckets))
                picks == {f \in [DOMAIN order -> Range(numbered)] :
                             \A k \in DOMAIN order :
                                f[k] \in Firsts(BucketRows(numbered, num_buckets, order[k]))}
            IN UNION {OrderByTime([k \in DOMAIN order |-> Out(f[k])]) : f \in picks}
    IN UNION {Results(numbered) : numbered \in Numbered(matching, time_col)}

\* _downsample_avg: one row per bucket, time = EPOCH(MIN) for a timestamp
\* column and AVG otherwise, values = AVG, ORDER BY the output time.
_downsample_avg(matching, time_col, value_cols, max_points, is_timestamp) ==
    LET num_buckets == max_points
        time_agg(rows) == IF is_timestamp THEN EPOCH(MIN(time_col, rows))
                          ELSE AVG(time_col, rows)
        Results(numbered) ==
            LET order == Ascending(Buckets(numbered, num_buckets))
                grouped == [k \in DOMAIN order |->
                               LET rows == BucketRows(numbered, num_buckets, order[k])
                               IN <<time_agg(rows)>> \o AvgCells(rows, value_cols)]
            IN OrderByTime(grouped)
    IN UNION {Results(numbered) : numbered \in Numbered(matching, time_col)}

\* the non-aggregated projection, ORDER BY "{time_column}"
SelectOrdered(matching, time_column, value_columns, is_timestamp) ==
    LET Out(r) == <<_get_time_select_expr(r, time_column, is_timestamp)>>
                      \o ValueCells(r, value_columns)
    IN OrderByTime([i \in DOMAIN matching |-> Out(matching[i])])

\* _results_to_columnar: one list per column name; cell i of a row goes to
\* the list of columns[i]
_results_to_columnar(results, time_col, value_cols) ==
    LET columns == <<time_col>> \o value_cols
        Cells(row, col) ==
            LET F[i \in 0..Len(columns)] ==
                    IF i = 0 THEN <<>>
                    ELSE IF columns[i] = col THEN Append(F[i - 1], row[i]) ELSE F[i - 1]
            IN F[Len(columns)]
        Column(col) ==
            LET G[k \in 0..Len(results)] ==
                    IF k = 0 THEN <<>> ELSE G[k - 1] \o Cells(results[k], col)
            IN G[Len(results)]
    IN IF results = <<>>
       THEN [col \in Range(columns) |-> <<>>]
       ELSE [col \in Range(columns) |-> Column(col)]

\* query_data, "if count_result <= max_points:  # No downsampling needed"
NoDownsamplingNeeded(count_result, max_points) == count_result <= max_points

\* AVG("{c}") of _downsample_lttb / _downsample_avg over a TIMESTAMP column:
\* the engine versions differ, the older ones have no avg(TIMESTAMP) and
\* raise, the newer ones return the mean timestamp
AveragesTimestamp(kind, value_columns) ==
    /\ kind \in {"LTTB", "AVG"}
    /\ \E i \in DOMAIN value_columns :
          /\ value_columns[i] \in DOMAIN Schema
          /\ _is_timestamp_type(Schema[value_columns[i]])

\* query_data: the set of outcomes (the engine's choice of order among tied
\* rows, and whether it averages timestamps, are the only freedom)
query_data(file, time_column, value_columns, start_time, end_time, max_points, downsample_method, cache) ==
    LET typed == _get_column_type(file, time_column, cache)
        col_type == typed.value
        is_timestamp == _is_timestamp_type(col_type)
        count_query == Stmt("COUNT", file,
                            WhereColumns(time_column, start_time, end_time), None)
        matching == SelectSeq(parquet, LAMBDA r :
                        _build_time_filter(r, time_column, start_time, end_time,
                                           is_timestamp))
        count_result == Len(matching)
        downsampled == ~NoDownsamplingNeeded(count_result, max_points)
        kind == IF ~downsampled THEN "SELECT"
                ELSE IF downsample_method = "lttb" THEN "LTTB"
                ELSE IF downsample_method = "minmax" THEN "MINMAX"
                ELSE "AVG"
        num_buckets == IF ~downsampled THEN None
                       ELSE IF kind = "MINMAX" THEN Some(max_points \div 2)
                       ELSE Some(max_points)
        query == Stmt(kind, file, {time_column} \cup Range(value_columns), num_buckets)
        results ==
            IF ~downsampled
            THEN SelectOrdered(matching, time_column, value_columns, is_timestamp)
            ELSE IF downsample_method = "lttb"
            THEN _downsample_lttb(matching, time_column, value_columns,
                                  max_points, is_timestamp)
            ELSE IF downsample_method = "minmax"
            THEN _downsample_minmax(matching, time_column, value_columns,
                                    max_points, is_timestamp)
            ELSE _downsample_avg(matching, time_column, value_columns,
                                 max_points, is_timestamp)
        Body(result) ==
            LET data == _results_to_columnar(result, time_column, value_columns)
            IN [data |-> data,
                total_points |-> count_result,
                returned_points |-> Len(data[time_column]),
                downsampled |-> downsampled,
                downsample_method |-> IF downsampled THEN downsample_method ELSE "null"]
    IN IF typed.exc # ""
       THEN {typed}
       ELSE IF EngineRejects(count_query)
       THEN {Raise("EngineError", typed.cache, typed.log \o <<count_query>>)}
       ELSE IF EngineRejects(query)
       THEN {Raise("EngineError", typed.cache, typed.log \o <<count_query, query>>)}
       ELSE {Return(Body(result), typed.cache, typed.log \o <<count_query, query>>) :
                result \in results}
            \cup (IF AveragesTimestamp(kind, value_columns)
                  THEN {Raise("EngineError", typed.cache,
                              typed.log \o <<count_query, query>>)}
                  ELSE {})

\* get_time_range
get_time_range(file, time_column, cache) ==
    LET typed == _get_column_type(file, time_column, cache)
        col_type == typed.value
        is_timestamp == _is_timestamp_type(col_type)
        range_query == Stmt("RANGE", file, {time_column}, None)
        min_val == IF parquet = <<>> THEN None ELSE Some(MIN(time_column, parquet))
        max_val == IF parquet = <<>> THEN None ELSE Some(MAX(time_column, parquet))
        Epoch(val) == IF is_timestamp
                      THEN (IF val = None THEN None ELSE Some(EPOCH(The(val))))
                      ELSE _to_epoch(val)
    IN IF typed.exc # ""
       THEN typed
       ELSE IF EngineRejects(range_query)
       THEN Raise("EngineError", typed.cache, typed.log \o <<range_query>>)
       ELSE Return([min |-> min_val, max |-> max_val,
                    min_epoch |-> Epoch(min_val), max_epoch |-> Epoch(max_val),
                    total_count |-> Len(parquet), is_timestamp |-> is_timestamp],
                   typed.cache, typed.log \o <<range_query>>)


(***************************************************************************)
(* RequestHandler.                                                         *)
(***************************************************************************)
_send_json(data) == [status |-> 200, body |-> data]

_send_error(code, message) == [status |-> code, body |-> [error |-> message]]

\* request.get(field, default) on the decoded JSON body
RequestGet(field, default) == IF field = None THEN default ELSE The(field)

Budgets == {Some(n) : n \in BudgetValues}
Bounds == {None} \cup {Some(b) : b \in WindowValues}
Methods == {"lttb", "minmax", "avg"}

FilesRequests == [endpoint : {"/api/files"}]

HealthRequests == [endpoint : {"/api/health"}]

ColumnsRequests == [endpoint : {"/api/columns"}, file : Files]

RangeRequests ==
    [endpoint : {"/api/range"}, file : Files, time_column : {TimeCol, BogusCol}]

\* Bodies of POST /api/query.  A body gives max_points and downsample_method
\* or leaves both out; the bodies that name a missing file or an unknown
\* column are taken among those that leave them out, and the bodies that
\* ask for the time column as a value column among those without a window.
QueryRequests ==
    [endpoint : {"/api/query"}, file : {DataFile},
     time_column : {TimeCol}, value_columns : {<<ValueCol>>},
     start_time : Bounds, end_time : Bounds,
     max_points : Budgets, downsample_method : {Some(m) : m \in Methods}]
    \cup
    [endpoint : {"/api/query"}, file : Files,
     time_column : {TimeCol, BogusCol},
     value_columns : {<<ValueCol>>, <<BogusCol>>},
     start_time : Bounds, end_time : Bounds,
     max_points : {None}, downsample_method : {None}]
    \cup
    [endpoint : {"/api/query"}, file : {DataFile},
     time_column : {TimeCol}, value_columns : {<<TimeCol>>},
     start_time : {None}, end_time : {None},
     max_points : Budgets, downsample_method : {Some(m) : m \in Methods}]

\* the response do_GET sends for an engine call's outcome
GetResponse(out, payload) ==
    IF out.exc = "" THEN _send_json(payload)
    ELSE IF out.exc = "FileNotFoundError" THEN _send_error(404, out.exc)
    ELSE _send_error(500, out.exc)

\* the response do_POST sends for an engine call's outcome
PostResponse(out) ==
    IF out.exc = "" THEN _send_json(out.value)
    ELSE _send_error(500, out.exc)

\* the outcomes of query_data for the body of a POST /api/query
QueryOutcomes(req, cache) ==
    query_data(req.file, req.time_column, req.value_columns,
               req.start_time, req.end_time,
               RequestGet(req.max_points, MAX_POINTS_DEFAULT),
               RequestGet(req.downsample_method, "lttb"), cache)

\* do_GET, path /api/files
GetFiles(req) ==
    \E glob \in Globs :
       LET out == list_files(glob, _column_types_cache)
       IN /\ request' = req
          /\ response' = GetResponse(out, [files |-> out.value])
          /\ _column_types_cache' = out.cache
          /\ executed' = out.log
          /\ _connection' = ConnectionAfter(_connection, out.log)
          /\ UNCHANGED <<parquet, timeType, onDisk, handlers>>

\* do_GET, path /api/health
GetHealth(req) ==
    /\ request' = req
    /\ response' = _send_json([status |-> "ok", version |-> "1.0.0"])
    /\ executed' = <<>>
    /\ UNCHANGED <<parquet, timeType, onDisk, _column_types_cache, _connection, handlers>>

\* do_GET, path /api/columns
GetColumns(req) ==
    LET out == get_columns(req.file, _column_types_cache)
    IN /\ request' = req
       /\ response' = GetResponse(out, [columns |-> out.value])
       /\ _column_types_cache' = out.cache
       /\ executed' = out.log
       /\ _connection' = ConnectionAfter(_connection, out.log)
       /\ UNCHANGED <<parquet, timeType, onDisk, handlers>>

\* do_GET, path /api/range
GetRange(req) ==
    LET out == get_time_range(req.file, req.time_column, _column_types_cache)
    IN /\ request' = req
       /\ response' = GetResponse(out, out.value)
       /\ _column_types_cache' = out.cache
       /\ executed' = out.log
       /\ _connection' = ConnectionAfter(_connection, out.log)
       /\ UNCHANGED <<parquet, timeType, onDisk, handlers>>

\* do_POST, path /api/query
PostQuery(req) ==
    \E out \in QueryOutcomes(req, _column_types_cache) :
       /\ request' = req
       /\ response' = PostResponse(out)
       /\ _column_types_cache' = out.cache
       /\ executed' = out.log
       /\ _connection' = ConnectionAfter(_connection, out.log)
       /\ UNCHANGED <<parquet, timeType, onDisk, handlers>>

\* serve_forever: the answered connection is closed, the next is awaited
ServeNext ==
    /\ request # NoRequest
    /\ request' = NoRequest
    /\ response' = NoResponse
    /\ executed' = <<>>
    /\ UNCHANGED <<parquet, timeType, onDisk, _column_types_cache, _connection, handlers>>

\* environment: data.parquet is deleted from PARQUET_DIR between requests
RemoveFile ==
    /\ request = NoRequest
    /\ DataFile \in onDisk
    /\ onDisk' = onDisk \ {DataFile}
    /\ UNCHANGED <<parquet, timeType, _column_types_cache, request, response, executed,
                   _connection, handlers>>

(***************************************************************************)
(* The file: at most MaxRows rows, written in (ts, v) order.               *)
(***************************************************************************)
RawTime(type, tick) == IF type = "TIMESTAMP" THEN tick * TickMicros ELSE tick

RowsOf(type) == [ts : {RawTime(type, k) : k \in Ticks}, v : Values]

FileContents(type) ==
    {s \in UNION {[1..n -> RowsOf(type)] : n \in 0..MaxRows} :
        \A i \in 1..(Len(s) - 1) :
            \/ s[i].ts < s[i + 1].ts
            \/ s[i].ts = s[i + 1].ts /\ s[i].v <= s[i + 1].v}

\* the clients and the state of a client that holds no connection
Clients == 1..MaxClients

Closed == [pc |-> "closed", todo |-> <<>>, response |-> NoResponse, cache |-> <<>>]

Init ==
    /\ timeType \in TimeTypes
    /\ parquet \in FileContents(timeType)
    /\ onDisk = {DataFile}
    /\ _column_types_cache = <<>>
    /\ request = NoRequest
    /\ response = NoResponse
    /\ executed = <<>>
    /\ _connection = None
    /\ handlers = [c \in Clients |-> Closed]

\* A client may resend the request it was just answered; any other request
\* is taken up once the answered one is finished (ServeNext).
Arrives(req) == request \in {NoRequest, req}

Next ==
    \/ \E req \in FilesRequests : Arrives(req) /\ GetFiles(req)
    \/ \E req \in HealthRequests : Arrives(req) /\ GetHealth(req)
    \/ \E req \in ColumnsRequests : Arrives(req) /\ GetColumns(req)
    \/ \E req \in RangeRequests : Arrives(req) /\ GetRange(req)
    \/ \E req \in QueryRequests : Arrives(req) /\ PostQuery(req)
    \/ ServeNext
    \/ RemoveFile

Spec == Init /\ [][Next]_vars

(***************************************************************************)
(* ServerSpec: the same server, followed call by call.  Clients connect at *)
(* any time; HTTPServer takes one connection off the listen queue and runs *)
(* its handler to the end before it takes the next.  A handler reads its   *)
(* request and hands its statements to DuckDBManager.execute one by one    *)
(* (todo); each call evaluates the connection property and then runs the   *)
(* statement on the connection.                                            *)
(*   pc: closed, waiting (in the listen queue), execute (at a call of      *)
(*   execute), connect (inside duckdb.connect), running (the statement     *)
(*   runs on the connection), respond (about to send the response).        *)
(***************************************************************************)
\* HTTPServer is not a ThreadingMixIn server: process_request runs the
\* handler in the serving thread, so a connection is taken up only while
\* no handler is running
CanAccept_threading(hs) == TRUE

CanAccept(hs) == \A c \in DOMAIN hs : hs[c].pc \in {"closed", "waiting"}

\* what the handler of a request does: its response, the statements it
\* executes and the schema cache its DESCRIBE writes
Handled(req, cache) ==
    IF req.endpoint = "/api/files"
    THEN {[response |-> GetResponse(out, [files |-> out.value]),
           cache |-> out.cache, todo |-> out.log] :
             out \in {list_files(glob, cache) : glob \in Globs}}
    ELSE IF req.endpoint = "/api/health"
    THEN {[response |-> _send_json([status |-> "ok", version |-> "1.0.0"]),
           cache |-> cache, todo |-> <<>>]}
    ELSE IF req.endpoint = "/api/columns"
    THEN LET out == get_columns(req.file, cache)
         IN {[response |-> GetResponse(out, [columns |-> out.value]),
              cache |-> out.cache, todo |-> out.log]}
    ELSE IF req.endpoint = "/api/range"
    THEN LET out == get_time_range(req.file, req.time_column, cache)
         IN {[response |-> GetResponse(out, out.value),
              cache |-> out.cache, todo |-> out.log]}
    ELSE {[response |-> PostResponse(out), cache |-> out.cache, todo |-> out.log] :
             out \in QueryOutcomes(req, cache)}

\* the requests of ServerSpec: the bodies that leave the optional fields out
ServerRequests ==
    FilesRequests \cup HealthRequests \cup ColumnsRequests \cup RangeRequests
    \cup {q \in QueryRequests :
             q.max_points = None /\ q.start_time = None /\ q.end_time = None}

\* a client connects; the connection waits in the listen queue
ClientConnects(c) ==
    /\ handlers[c].pc = "closed"
    /\ handlers' = [handlers EXCEPT ![c].pc = "waiting"]
    /\ UNCHANGED <<parquet, timeType, onDisk, _column_types_cache,
                   request, response, executed, _connection>>

\* serve_forever takes the connection of c; do_GET / do_POST reads the request
HandleRequest(c, req) ==
    /\ handlers[c].pc = "waiting"
    /\ CanAccept(handlers)
    /\ \E h \in Handled(req, _column_types_cache) :
          handlers' = [handlers EXCEPT ![c] =
                          [pc |-> IF h.todo = <<>> THEN "respond" ELSE "execute",
                           todo |-> h.todo, response |-> h.response, cache |-> h.cache]]
    /\ request' = req
    /\ response' = NoResponse
    /\ executed' = <<>>
    /\ UNCHANGED <<parquet, timeType, onDisk, _column_types_cache, _connection>>

\* DuckDBManager.execute evaluates self.connection: "if self._connection is None"
ExecuteCall(c) ==
    /\ handlers[c].pc = "execute"
    /\ handlers' = [handlers EXCEPT
                       ![c].pc = IF _connection = None THEN "connect" ELSE "running"]
    /\ UNCHANGED <<parquet, timeType, onDisk, _column_types_cache,
                   request, response, executed, _connection>>

\* self._connection = duckdb.connect(":memory:"), SET threads, SET memory_limit;
\* then the statement is run on it
Connect(c) ==
    /\ handlers[c].pc = "connect"
    /\ _connection' = IF _connection = None THEN Some(1)
                      ELSE Some(The(_connection) + 1)
    /\ handlers' = [handlers EXCEPT ![c].pc = "running"]
    /\ UNCHANGED <<parquet, timeType, onDisk, _column_types_cache,
                   request, response, executed>>

\* .execute(query).fetchall() returns (or raises): the statement is over;
\* after DESCRIBE, get_columns writes the cache entry
Fetchall(c) ==
    /\ handlers[c].pc = "running"
    /\ executed' = Append(executed, Head(handlers[c].todo))
    /\ _column_types_cache' =
          IF Head(handlers[c].todo).stmt = "DESCRIBE"
          THEN handlers[c].cache ELSE _column_types_cache
    /\ handlers' = [handlers EXCEPT
                       ![c].todo = Tail(handlers[c].todo),
                       ![c].pc = IF Tail(handlers[c].todo) = <<>>
                                 THEN "respond" ELSE "execute"]
    /\ UNCHANGED <<parquet, timeType, onDisk, request, response, _connection>>

\* _send_json / _send_error; the handler returns and the connection is closed
Respond(c) ==
    /\ handlers[c].pc = "respond"
    /\ response' = handlers[c].response
    /\ handlers' = [handlers EXCEPT ![c] = Closed]
    /\ UNCHANGED <<parquet, timeType, onDisk, _column_types_cache,
                   request, executed, _connection>>

\* ServerSpec starts from the files of at most one row
ServerInit == Init /\ Len(parquet) <= 1

ServerNext ==
    \/ \E c \in Clients : ClientConnects(c)
    \/ \E c \in Clients : \E req \in ServerRequests : HandleRequest(c, req)
    \/ \E c \in Clients : ExecuteCall(c)
    \/ \E c \in Clients : Connect(c)
    \/ \E c \in Clients : Fetchall(c)
    \/ \E c \in Clients : Respond(c)

ServerSpec == ServerInit /\ [][ServerNext]_vars


(***************************************************************************)
(* Properties.                                                             *)
(***************************************************************************)
IsQuery == request.endpoint = "/api/query"

\* a POST /api/query was answered 200 with a query_data result
QueryAnswered == IsQuery /\ response.status = 200

ReqBudget == RequestGet(request.max_points, MAX_POINTS_DEFAULT)
ReqMethod == RequestGet(request.downsample_method, "lttb")
ReqColumns == {request.time_column} \cup Range(request.value_columns)
TimeAxis == response.body.data[request.time_column]

\* the statements of the request other than the schema lookup
CountOrDataQueries == {i \in DOMAIN executed : executed[i].stmt # "DESCRIBE"}

\* C1: when the window holds more rows than the budget, at most max_points
\* rows are returned by avg and lttb and at most max_points // 2 by minmax,
\* for every budget the code accepts.
C1_BoundedByBudget ==
    (QueryAnswered /\ response.body.total_points > ReqBudget) =>
        response.body.returned_points <=
            (IF ReqMethod = "minmax" THEN ReqBudget \div 2 ELSE ReqBudget)

\* C2: when the window holds at most max_points rows nothing is aggregated:
\* returned_points = total_points, downsampled is false and
\* downsample_method is null, whatever the method and the window.
C2_NoAggregationWithinBudget ==
    (QueryAnswered /\ response.body.total_points <= ReqBudget) =>
        /\ response.body.returned_points = response.body.total_points
        /\ response.body.downsampled = FALSE
        /\ response.body.downsample_method = "null"

C2_Witness ==
    /\ QueryAnswered
    /\ request.downsample_method = Some("minmax")
    /\ request.start_time # None
    /\ response.body.total_points = 2
    /\ ReqBudget = 2
    /\ response.body.returned_points = 2

\* C3: every query_data response has
\* returned_points <= max(max_points, total_points).
C3_ReturnedAtMostMax ==
    QueryAnswered =>
        response.body.returned_points <=
            (IF ReqBudget >= response.body.total_points
             THEN ReqBudget ELSE response.body.total_points)

C3_Witness ==
    /\ QueryAnswered
    /\ response.body.downsampled
    /\ ReqBudget = 2
    /\ response.body.total_points = 3
    /\ response.body.returned_points = 2

\* C4: a POST /api/query with max_points <= 0 is answered 400 without any
\* count or data query reaching the engine, and no bucketing query runs
\* with a bucket count of zero.
C4_NonPositiveBudgetRejected ==
    /\ (IsQuery /\ ReqBudget <= 0) =>
          response.status = 400 /\ CountOrDataQueries = {}
    /\ \A i \in DOMAIN executed : executed[i].num_buckets # Some(0)

\* C5: a query naming a time or value column the file does not have fails
\* with a validation error (400) decided from the schema alone: no engine
\* statement follows the schema lookup.
C5_UnknownColumnRejectedBeforeEngine ==
    (IsQuery /\ request.file \in onDisk /\ ~(ReqColumns \subseteq DOMAIN Schema)) =>
        response.status = 400 /\ CountOrDataQueries = {}

\* C6: the time axis of every query_data response is non-decreasing, with
\* or without aggregation, for each strategy and either kind of time column.
C6_TimeNonDecreasing ==
    QueryAnswered =>
        \A i \in 1..(Len(TimeAxis) - 1) : RatLeq(TimeAxis[i], TimeAxis[i + 1])

\* the rows of the response: every row gives one cell to the time axis and
\* one more for each value column that names the time column
CellsPerRow ==
    1 + Cardinality({i \in DOMAIN request.value_columns :
                        request.value_columns[i] = request.time_column})

ReturnedRows == Len(TimeAxis) \div CellsPerRow

C8_RepeatedQuerySameResponse ==
    [][(IsQuery /\ request' = request /\ response.status = 200
            /\ response'.status = 200) => response' = response]_vars

C10_MissingFileIs404 ==
    ("file" \in DOMAIN request /\ request.file \notin onDisk) =>
        response.status = 404 /\ DOMAIN response.body = {"error"}


\* the clients whose statement is running on the shared connection
Executing == {c \in Clients : handlers[c].pc = "running"}

\* C11: access to the shared engine connection is serialized: however the
\* clients' requests arrive, at most one statement at a time is running on
\* the connection, and the connection is created at most once.
C11_ConnectionSerialized ==
    /\ Cardinality(Executing) <= 1
    /\ _connection \in {None, Some(1)}

C11_Witness ==
    /\ \E c \in Clients : handlers[c].pc = "running" /\ Len(handlers[c].todo) = 1
    /\ \E c \in Clients : handlers[c].pc = "waiting"
    /\ _connection = Some(1)
    /\ Len(executed) = 2


\* the rows of the window of the answered query, and the rows of its response
WindowRows ==
    SelectSeq(parquet, LAMBDA r :
        _build_time_filter(r, request.time_column, request.start_time,
                           request.end_time,
                           _is_timestamp_type(Schema[request.time_column])))

ResponseRows ==
    [k \in DOMAIN TimeAxis |->
        <<TimeAxis[k]>> \o [i \in DOMAIN request.value_columns |->
                               response.body.data[request.value_columns[i]][k]]]

\* one row per bucket: the earliest time of the bucket (as epoch for a
\* timestamp column, the raw value otherwise) and the mean of each value column
EarliestAndMeans(numbered, num_buckets) ==
    LET order == Ascending(Buckets(numbered, num_buckets))
        earliest(rows) ==
            IF _is_timestamp_type(Schema[request.time_column])
            THEN EPOCH(MIN(request.time_column, rows))
            ELSE Rat(MIN(request.time_column, rows), 1)
    IN [k \in DOMAIN order |->
           LET rows == BucketRows(numbered, num_buckets, order[k])
           IN <<earliest(rows)>> \o AvgCells(rows, request.value_columns)]

\* C12: with the avg strategy every emitted row carries the earliest time of
\* its bucket (as epoch for timestamp columns, the raw value for numeric
\* time columns) and the arithmetic mean of each value column.
C12_AvgEmitsEarliestTime ==
    (QueryAnswered /\ response.body.downsampled /\ ReqMethod = "avg") =>
        \E numbered \in Numbered(WindowRows, request.time_column) :
            ResponseRows \in OrderByTime(EarliestAndMeans(numbered, ReqBudget))


\* the statements of the step's request that query the schema of file f
\* (get_columns writes the cache entry of f right after each of them)
Describes(log, f) == {i \in DOMAIN log : log[i].stmt = "DESCRIBE" /\ log[i].file = f}

\* C13 as stated: once a file has a cache entry no later operation
\* (get_columns, get_time_range, query_data) queries its schema or writes
\* the entry again.
C13_CacheWrittenOnce ==
    [][\A f \in DOMAIN _column_types_cache :
          /\ f \in DOMAIN _column_types_cache'
          /\ _column_types_cache'[f] = _column_types_cache[f]
          /\ Describes(executed', f) = {}]_vars

\* C13, amended: get_time_range and query_data query the schema and write
\* the entry of a file only when it has none; no operation changes the
\* value of an existing entry (get_columns queries and rewrites it on
\* every call).
C13_LookupsWriteOnce ==
    [][\A f \in DOMAIN _column_types_cache :
          /\ f \in DOMAIN _column_types_cache'
          /\ _column_types_cache'[f] = _column_types_cache[f]
          /\ request'.endpoint \in {"/api/range", "/api/query"} =>
                Describes(executed', f) = {}]_vars

C13_Witness ==
    /\ request.endpoint = "/api/range"
    /\ request.file \in DOMAIN _column_types_cache
    /\ response.status = 200
    /\ Len(executed) = 1
    /\ executed[1].stmt = "RANGE"

====
